---- MODULE Spec2Model ----
(***************************************************************************)
(* Market-CSGO-Undercut: the repricing loop of src/main.py and             *)
(* src/modules/{api_client,config_manager,price_manager}.py.               *)
(*                                                                         *)
(* Prices.  The program computes with binary floating point on decimal     *)
(* prices.  A price is modelled as an integer number of quarter-mills      *)
(* (1/4000 USD): Milli units make 0.001 USD and Cent units make 0.01 USD.  *)
(* Decimal inputs lie on the half-cent grid (multiples of HalfCent); the   *)
(* odd unit is used only for the rounding error of a floating-point        *)
(* operation, whose sign is tabulated from IEEE-754 double arithmetic for  *)
(* the operands of the grid (SubErrTable, QuotSlack).                      *)
(*                                                                         *)
(* Control.  One action is one step of the single control thread up to the *)
(* next point where it blocks on the outside world: an HTTP attempt        *)
(* (session.get), the return of _make_request to its caller, an operator   *)
(* input, or the interval sleep.                                           *)
(***************************************************************************)
EXTENDS Integers, Sequences, FiniteSets, TLC

\* ------------------------------------------------------------------ bounds
\* listings in one reply of the "items" endpoint
MaxItems == 3
\* offer prices of the model: 1..MaxPrice cents
MaxPrice == 4
\* floor prices the operator types: 0..MaxFloor cents
MaxFloor == 1
\* pure-function specifications: prices 0..MaxGrid half-cents
MaxGrid == 6
\* prices of the encoding round trip run up to MaxMills thousandths
MaxMills == 12

\* ------------------------------------------------------- program constants
\* price_manager.py:196, update_item_price
max_retries == 3
\* api_client.py:24, _make_request(max_retries=3)
request_max_retries == 3
\* api_client.py:101, status 2 = sold / sale in progress
SoldStatus == 2
\* api_client.py:155 and price_manager.py:85: the wire unit is 0.001 USD;
\* one wire unit is Milli model units
Milli == 4

Cent == 10 * Milli
HalfCent == 5 * Milli

Max(a, b) == IF a >= b THEN a ELSE b

Names == {"A", "B"}

\* ---------------------------------------------------------- floating point
\* sign of fl(fl(b/1000) - 0.01) - fl((b-10)/1000) for b = 0, 5, 10, ... 120
\* thousandths (IEEE-754 binary64, round to nearest even)
SubErrTable ==
  << 0, 0, 0, -1, 0, 1, -1, 0, 0, -1, 0, 0, -1,
     0, 1, 0, 0, 1, 0, 0, 1, 0, 0, 1, 0 >>

OnGrid(p) == p >= 0 /\ p % HalfCent = 0 /\ (p \div HalfCent) < Len(SubErrTable)

\* price_manager.py:156 and :263, the float expression best_price - 0.01
SubCent(best_price) ==
  best_price - Cent
    + (IF OnGrid(best_price) THEN SubErrTable[(best_price \div HalfCent) + 1] ELSE 0)

\* pairs <<current, best>> in thousandths, on the half-cent grid up to 120,
\* whose float quotient (current - best) / 0.01 falls just below the exact
\* integer quotient, so that int() truncates to one less
SlackPairs ==
  { <<15, 5>>, <<30, 10>>, <<30, 20>>, <<45, 25>>, <<45, 35>>, <<55, 35>>,
    <<60, 10>>, <<60, 20>>, <<60, 40>>, <<60, 50>>, <<75, 5>>, <<75, 25>>,
    <<75, 35>>, <<75, 55>>, <<75, 65>>, <<80, 70>>, <<90, 20>>, <<90, 40>>,
    <<90, 50>>, <<90, 70>>, <<90, 80>>, <<95, 85>>, <<105, 5>>, <<105, 25>>,
    <<105, 35>>, <<105, 55>>, <<105, 65>>, <<105, 85>>, <<105, 95>>,
    <<110, 70>>, <<110, 100>>, <<120, 20>>, <<120, 40>>, <<120, 50>>,
    <<120, 70>>, <<120, 80>>, <<120, 100>>, <<120, 110>> }

QuotSlack(current_price, best_price) ==
  IF <<current_price \div Milli, best_price \div Milli>> \in SlackPairs THEN 1 ELSE 0

\* ------------------------------------------------------------ pure functions
calculate_position_as_any_difference(current_price, best_price) ==
  IF current_price = best_price
    THEN 1
    ELSE LET position_diff ==
               ((current_price - best_price) \div Cent)
                 - QuotSlack(current_price, best_price) + 1
         IN  Max(2, position_diff)

calculate_position_as_reversed(current_price, best_price) ==
  IF current_price >= best_price
    THEN 1
    ELSE LET position_diff ==
               ((current_price - best_price) \div Cent)
                 - QuotSlack(current_price, best_price) + 1
         IN  Max(2, position_diff)

calculate_position_as_strict(current_price, best_price) ==
  IF current_price < best_price
    THEN 1
    ELSE Max(2, ((current_price - best_price) \div Cent) + 1)

\* price_manager.py:120-139
calculate_position(current_price, best_price) ==
  IF current_price <= best_price
    THEN 1
    ELSE LET position_diff ==
               ((current_price - best_price) \div Cent)
                 - QuotSlack(current_price, best_price) + 1
         IN  Max(2, position_diff)

get_min_price_as_missing(cfg, market_hash_name) == <<>>

\* config_manager.py:77-88; None is <<>>, a price p is <<p>>
get_min_price(cfg, market_hash_name) ==
  IF market_hash_name \in DOMAIN cfg THEN <<cfg[market_hash_name]>> ELSE <<>>

\* price_manager.py:141-170; the result is <<should_update, new_price>>,
\* new_price being <<>> for None
should_update_price_as_floor_after(item, cfg) ==
  IF item.position = 1
    THEN <<FALSE, <<>> >>
    ELSE LET new_price == SubCent(item.best_price)
             min_price == get_min_price(cfg, item.market_hash_name)
         IN  IF new_price >= item.current_price
               THEN <<FALSE, <<>> >>
               ELSE IF min_price # <<>> /\ new_price < min_price[1] - Cent
                      THEN <<FALSE, <<>> >>
                      ELSE <<TRUE, <<new_price>> >>

should_update_price_as_no_guard(item, cfg) ==
  IF item.position = 1
    THEN <<FALSE, <<>> >>
    ELSE LET new_price == SubCent(item.best_price)
             min_price == get_min_price(cfg, item.market_hash_name)
         IN  IF min_price # <<>> /\ new_price < min_price[1]
               THEN <<FALSE, <<>> >>
               ELSE <<TRUE, <<new_price>> >>

should_update_price(item, cfg) ==
  IF item.position = 1
    THEN <<FALSE, <<>> >>
    ELSE LET new_price == SubCent(item.best_price)
             min_price == get_min_price(cfg, item.market_hash_name)
         IN  IF min_price # <<>> /\ new_price < min_price[1]
               THEN <<FALSE, <<>> >>
               ELSE IF new_price >= item.current_price
                      THEN <<FALSE, <<>> >>
                      ELSE <<TRUE, <<new_price>> >>

\* Python round(): to nearest, ties to even
Round(x, unit) ==
  LET q == x \div unit
      r == x % unit
  IN  IF 2 * r < unit THEN q
      ELSE IF 2 * r > unit THEN q + 1
      ELSE IF q % 2 = 0 THEN q ELSE q + 1

price_formatted_as_truncate(price) == price \div Milli

\* api_client.py:155, price_formatted = int(round(price * 1000))
price_formatted(price) == Round(price, Milli)

\* price_manager.py:85, best_price = float(raw_best_price) / 1000
decode_price(raw_best_price) == raw_best_price * Milli

\* ------------------------------------------------------------------- state
VARIABLES
  pc,             \* where the control thread is
  config,         \* ConfigManager.config["min_prices"], a dict name -> price
  disk,           \* the "min_prices" of config.json on stable storage
  auto_confirm,   \* argument of process_all_items
  req,            \* arguments of the _make_request call in progress
  req_attempt,    \* loop variable "attempt" of _make_request
  response,       \* value _make_request has returned to its caller
  my_items,       \* get_my_items_info: the active raw listings
  eval_idx,       \* get_my_items_info: index of the listing being queried
  items,          \* the ItemInfo list
  idx,            \* process_all_items: index of the item being processed
  stats,          \* process_all_items: the statistics
  should_update,  \* process_all_items: first component of the decision
  new_price,      \* the decided price; the price update_item_price submits
  upd_attempt,    \* loop variable "attempt" of update_item_price
  upd_result,     \* value update_item_price has returned
  tries,          \* history: session.get calls of the request in progress
  waits,          \* history: sleeps of the request in progress
  sp_calls,       \* history: set_price calls of the update in progress
  sp_https,       \* history: session.get calls of the update in progress
  only_too_often, \* history: every set_price response so far was too_often
  interrupted_at, \* history: pc at which KeyboardInterrupt was raised
  net_errors,     \* history: attempts of the request in progress that raised
                  \* Timeout or ConnectionError
  confirm,        \* update_item_price: the operator's answer at the prompt
  price_str,      \* set_min_price_menu: the price typed last, <<>> if none
  market          \* the remote market: the offers it holds, in thousandths

storeVars == <<config, disk>>
reqVars == <<req, req_attempt, response, tries, waits, net_errors>>
cycleVars == <<my_items, eval_idx, items, idx, stats>>
updVars == <<should_update, new_price, upd_attempt, upd_result, sp_calls, only_too_often,
             confirm>>
vars == <<pc, config, disk, auto_confirm, req, req_attempt, response, my_items,
          eval_idx, items, idx, stats, should_update, new_price, upd_attempt,
          upd_result,
          tries, waits, sp_calls, sp_https, only_too_often, interrupted_at,
          net_errors, confirm, price_str, market>>

EmptyDict == [n \in {} |-> 0]

NoReq == [endpoint |-> "none", item_id |-> 0, hash_name |-> "", price |-> 0]

NoResponse ==
  [kind |-> "none", success |-> FALSE, error |-> "", items |-> <<>>, data |-> <<>>]

\* the market is not looked into: the service answers anything
NoMarket == [own |-> <<>>, other |-> EmptyDict]

NoStats ==
  [total |-> 0, updated |-> 0, skipped |-> 0, first_position |-> 0, below_min |-> 0]

\* pcs at which a _make_request call is in progress or has just returned
RequestPcs == {"connect", "fetch", "offers", "set_price"}

\* pcs inside the try block of auto_update_mode (main.py:192-214)
AutoPcs == {"fetch", "offers", "process", "confirm", "set_price", "updated", "sleep"}

InFlight == pc \in RequestPcs /\ response.kind = "none"
Returned == pc \in RequestPcs /\ response.kind # "none"

\* --------------------------------------------------------- the remote service
\* the market hash name of listing i
NameOf(i) == IF i % 2 = 1 THEN "A" ELSE "B"

ListingPrices == {(MaxPrice - 1) * Cent}
Statuses == {1, SoldStatus}
OfferRaw == {10 * k : k \in 1..MaxPrice}

RawItem(i, p, s) ==
  [item_id |-> i, market_hash_name |-> NameOf(i), price |-> p, status |-> s]

\* replies of "items": MaxItems listings, each with a price and a status
AllItems ==
  { [i \in 1..MaxItems |-> RawItem(i, ps[i][1], ps[i][2])] :
      ps \in [1..MaxItems -> ListingPrices \X Statuses] }

JsonOk == [NoResponse EXCEPT !.kind = "json", !.success = TRUE]
JsonFail(e) == [NoResponse EXCEPT !.kind = "json", !.error = e]
\* api_client.py:64 and :69, {"success": False, "error": str(e)}
NetFail == [NoResponse EXCEPT !.kind = "neterr", !.error = "net"]
HttpFail == [NoResponse EXCEPT !.kind = "httperr", !.error = "http"]

\* the JSON bodies the service may answer with, by endpoint
Bodies(endpoint) ==
  CASE endpoint = "get-money" -> {JsonOk, JsonFail("too_often"), JsonFail("app_error")}
    [] endpoint = "items" ->
         {[JsonOk EXCEPT !.items = its] : its \in AllItems}
           \cup {JsonFail("too_often"), JsonFail("app_error")}
    [] endpoint = "search-item-by-hash-name" ->
         {JsonOk} \cup {[JsonOk EXCEPT !.data = <<raw>>] : raw \in OfferRaw}
           \cup {JsonFail("too_often"), JsonFail("app_error")}
    [] endpoint = "set-price" ->
         {JsonOk, JsonFail("too_often"), JsonFail("app_error")}
    [] OTHER -> {}

\* ------------------------------------------------------------- _make_request
\* start of a _make_request call (api_client.py:36-44)
Issue(r) ==
  /\ req' = r
  /\ req_attempt' = 0
  /\ response' = NoResponse
  /\ tries' = 0
  /\ waits' = 0
  /\ net_errors' = 0

Idle ==
  /\ req' = NoReq
  /\ req_attempt' = 0
  /\ response' = NoResponse
  /\ tries' = 0
  /\ waits' = 0
  /\ net_errors' = 0

CountHttp ==
  /\ tries' = tries + 1
  /\ sp_https' = IF req.endpoint = "set-price" THEN sp_https + 1 ELSE sp_https

\* api_client.py:46-53: the service answers 2xx with a JSON body
HttpReply ==
  /\ InFlight
  /\ \E body \in Bodies(req.endpoint) : response' = body
  /\ CountHttp
  /\ UNCHANGED <<pc, storeVars, auto_confirm, market, price_str, req, req_attempt, waits, net_errors,
                 cycleVars, updVars,
                 interrupted_at>>

HttpTimeout_as_extra_attempt ==
  /\ InFlight
  /\ CountHttp
  /\ net_errors' = net_errors + 1
  /\ IF req_attempt < request_max_retries
       THEN /\ waits' = waits + 1
            /\ req_attempt' = req_attempt + 1
            /\ UNCHANGED response
       ELSE /\ response' = NetFail
            /\ UNCHANGED <<waits, req_attempt>>
  /\ UNCHANGED <<pc, storeVars, auto_confirm, market, price_str, req, cycleVars, updVars, interrupted_at>>

\* api_client.py:55-64: Timeout or ConnectionError
HttpTimeout ==
  /\ InFlight
  /\ CountHttp
  /\ net_errors' = net_errors + 1
  /\ IF req_attempt < request_max_retries - 1
       THEN /\ waits' = waits + 1
            /\ req_attempt' = req_attempt + 1
            /\ UNCHANGED response
       ELSE /\ response' = NetFail
            /\ UNCHANGED <<waits, req_attempt>>
  /\ UNCHANGED <<pc, storeVars, auto_confirm, market, price_str, req, cycleVars, updVars, interrupted_at>>

HttpError_as_retry ==
  /\ InFlight
  /\ CountHttp
  /\ IF req_attempt < request_max_retries - 1
       THEN /\ waits' = waits + 1
            /\ req_attempt' = req_attempt + 1
            /\ UNCHANGED response
       ELSE /\ response' = HttpFail
            /\ UNCHANGED <<waits, req_attempt>>
  /\ UNCHANGED <<pc, storeVars, auto_confirm, market, price_str, req, net_errors, cycleVars, updVars,
                 interrupted_at>>

\* api_client.py:66-69: any other RequestException (HTTP 4xx/5xx)
HttpError ==
  /\ InFlight
  /\ CountHttp
  /\ response' = HttpFail
  /\ UNCHANGED <<pc, storeVars, auto_confirm, market, price_str, req, req_attempt, waits, net_errors,
                 cycleVars, updVars,
                 interrupted_at>>

\* ------------------------------------------------------------ Price Floor Store
\* config_manager.py:101, self.config["min_prices"][market_hash_name] = price
DictSet(d, k, v) == [n \in DOMAIN d \cup {k} |-> IF n = k THEN v ELSE d[n]]
\* config_manager.py:113, del self.config["min_prices"][market_hash_name]
DictDel(d, k) == [n \in DOMAIN d \ {k} |-> d[n]]

\* what the file holds after _save_config (config_manager.py:46-57):
\* "ok" the dump succeeded; "open_failed" open() raised and the file is
\* untouched; "write_failed" open() truncated the file and the dump raised.
\* Both exceptions are caught and printed, and the caller returns normally.
SaveOutcomes == {"ok", "open_failed", "write_failed"}

save_config(cfg, outcome) ==
  CASE outcome = "ok" -> [readable |-> TRUE, min_prices |-> cfg]
    [] outcome = "open_failed" -> disk
    [] OTHER -> [readable |-> FALSE, min_prices |-> EmptyDict]

\* floor prices the operator types at the prompt of main.py:120
MenuPrices == {k * Cent : k \in (-1)..MaxFloor}

set_min_price_menu_as_unchecked(name, price, outcome) ==
  /\ pc = "menu"
  /\ price_str' = <<price>>
  /\ config' = DictSet(config, name, price)
  /\ disk' = save_config(config', outcome)
  /\ UNCHANGED <<pc, auto_confirm, market, reqVars, cycleVars, updVars, sp_https, interrupted_at>>

\* main.py:98-136 with config_manager.py:90-103
set_min_price_menu(name, price, outcome) ==
  /\ pc = "menu"
  /\ price_str' = <<price>>
  /\ IF price > 0
       THEN /\ config' = DictSet(config, name, price)
            /\ disk' = save_config(config', outcome)
       ELSE UNCHANGED storeVars
  /\ UNCHANGED <<pc, auto_confirm, market, reqVars, cycleVars, updVars, sp_https, interrupted_at>>

\* main.py:139-170 with config_manager.py:105-115
remove_min_price_menu(name, outcome) ==
  /\ pc = "menu"
  /\ IF name \in DOMAIN config
       THEN /\ config' = DictDel(config, name)
            /\ disk' = save_config(config', outcome)
       ELSE UNCHANGED storeVars
  /\ price_str' = <<>>
  /\ UNCHANGED <<pc, auto_confirm, market, reqVars, cycleVars, updVars, sp_https, interrupted_at>>

\* ------------------------------------------------------------------ main()
\* main.py:275-284, the balance request has returned
Connected ==
  /\ pc = "connect"
  /\ Returned
  /\ pc' = IF response.success THEN "menu" ELSE "exit"
  /\ Idle
  /\ UNCHANGED <<storeVars, auto_confirm, market, price_str, cycleVars, updVars, sp_https, interrupted_at>>

ItemsReq == [NoReq EXCEPT !.endpoint = "items"]
SearchReq(name) == [NoReq EXCEPT !.endpoint = "search-item-by-hash-name", !.hash_name = name]
\* api_client.py:155-168
SetPriceReq(item_id, price) ==
  [NoReq EXCEPT !.endpoint = "set-price", !.item_id = item_id, !.price = price_formatted(price)]

\* main.py:187-203, the operator starts the automatic mode; first iteration
StartAuto ==
  /\ pc = "menu"
  /\ pc' = "fetch"
  /\ Issue(ItemsReq)
  /\ interrupted_at' = "none"
  /\ price_str' = <<>>
  /\ UNCHANGED <<storeVars, auto_confirm, market, cycleVars, updVars, sp_https>>

\* ------------------------------------------------------- get_my_items_info
\* api_client.py:100, status = item.get("status", 0)
item_status(item) == IF "status" \in DOMAIN item THEN item.status ELSE 0

get_items_on_sale_as_active_only(resp) ==
  IF resp.success
    THEN [resp EXCEPT !.items = SelectSeq(resp.items, LAMBDA it : item_status(it) = 1)]
    ELSE resp

\* api_client.py:92-112, the filter of get_items_on_sale
get_items_on_sale(resp) ==
  IF resp.success
    THEN [resp EXCEPT
            !.items = SelectSeq(resp.items, LAMBDA it : item_status(it) # SoldStatus)]
    ELSE resp

\* price_manager.py:51-63 (and :237-266 when there is nothing to process)
FetchReturn ==
  /\ pc = "fetch"
  /\ Returned
  /\ LET my_items_response == get_items_on_sale(response)
     IN  IF ~my_items_response.success \/ my_items_response.items = <<>>
           THEN /\ pc' = "process"
                /\ my_items' = <<>>
                /\ eval_idx' = 0
                /\ items' = <<>>
                /\ idx' = 1
                /\ stats' = NoStats
                /\ Idle
           ELSE /\ pc' = "offers"
                /\ my_items' = my_items_response.items
                /\ eval_idx' = 1
                /\ items' = <<>>
                /\ Issue(SearchReq(my_items_response.items[1].market_hash_name))
                /\ UNCHANGED <<idx, stats>>
  /\ UNCHANGED <<storeVars, auto_confirm, market, price_str, updVars, sp_https, interrupted_at>>

item_info_as_zero_on_failure(item, price_info) ==
  LET current_price == item.price
      best_price == IF price_info.success
                      THEN IF price_info.data # <<>>
                             THEN decode_price(price_info.data[1])
                             ELSE current_price
                      ELSE 0
  IN  [item_id |-> item.item_id,
       market_hash_name |-> item.market_hash_name,
       current_price |-> current_price,
       best_price |-> best_price,
       position |-> calculate_position(current_price, best_price)]

item_info_as_zero_best(item, price_info) ==
  LET current_price == item.price
      best_price == IF price_info.success /\ price_info.data # <<>>
                      THEN decode_price(price_info.data[1])
                      ELSE 0
  IN  [item_id |-> item.item_id,
       market_hash_name |-> item.market_hash_name,
       current_price |-> current_price,
       best_price |-> best_price,
       position |-> calculate_position(current_price, best_price)]

\* price_manager.py:67-111, the ItemInfo built from a listing and the answer
\* to its best-offer query
item_info(item, price_info) ==
  LET current_price == item.price
      best_price == IF price_info.success /\ price_info.data # <<>>
                      THEN decode_price(price_info.data[1])
                      ELSE current_price
  IN  [item_id |-> item.item_id,
       market_hash_name |-> item.market_hash_name,
       current_price |-> current_price,
       best_price |-> best_price,
       position |-> calculate_position(current_price, best_price)]

\* price_manager.py:75-118, then :239-245 after the last listing
OfferReturn ==
  /\ pc = "offers"
  /\ Returned
  /\ items' = Append(items, item_info(my_items[eval_idx], response))
  /\ IF eval_idx < Len(my_items)
       THEN /\ eval_idx' = eval_idx + 1
            /\ Issue(SearchReq(my_items[eval_idx + 1].market_hash_name))
            /\ UNCHANGED <<pc, my_items, idx, stats>>
       ELSE /\ pc' = "process"
            /\ my_items' = <<>>
            /\ eval_idx' = 0
            /\ idx' = 1
            /\ stats' = [NoStats EXCEPT !.total = Len(items')]
            /\ Idle
  /\ UNCHANGED <<storeVars, auto_confirm, market, price_str, updVars, sp_https, interrupted_at>>

\* ------------------------------------------------------- process_all_items
NoUpdate ==
  /\ should_update' = "none"
  /\ new_price' = 0
  /\ upd_attempt' = 0
  /\ upd_result' = "none"
  /\ sp_calls' = 0
  /\ sp_https' = 0
  /\ only_too_often' = FALSE
  /\ confirm' = "none"

counts_below_min_as_best_price(item, cfg) ==
  LET min_price == get_min_price(cfg, item.market_hash_name)
  IN  /\ min_price # <<>>
      /\ min_price[1] # 0
      /\ item.best_price < min_price[1]

\* price_manager.py:262-264, the item counts as below the minimum
counts_below_min(item, cfg) ==
  LET min_price == get_min_price(cfg, item.market_hash_name)
  IN  /\ min_price # <<>>
      /\ min_price[1] # 0
      /\ SubCent(item.best_price) < min_price[1]

count_first_as_skipped(s) == [s EXCEPT !.first_position = @ + 1, !.skipped = @ + 1]

\* price_manager.py:248-251, an item already in first position
count_first(s) == [s EXCEPT !.first_position = @ + 1]

\* price_manager.py:247-264 for one item, and :184-203 when it is to be updated
ProcessItem ==
  /\ pc = "process"
  /\ idx <= Len(items)
  /\ LET item == items[idx]
         decision == should_update_price(item, config)
     IN  IF item.position = 1
           THEN /\ stats' = count_first(stats)
                /\ idx' = idx + 1
                /\ UNCHANGED <<pc, reqVars, updVars, sp_https>>
           ELSE IF decision[1]
             THEN /\ should_update' = "true"
                  /\ new_price' = decision[2][1]
                  /\ upd_attempt' = 0
                  /\ upd_result' = "none"
                  /\ sp_https' = 0
                  /\ confirm' = "none"
                  /\ IF auto_confirm
                       THEN /\ pc' = "set_price"
                            /\ Issue(SetPriceReq(item.item_id, decision[2][1]))
                            /\ sp_calls' = 1
                            /\ only_too_often' = TRUE
                       ELSE /\ pc' = "confirm"
                            /\ UNCHANGED <<reqVars, sp_calls, only_too_often>>
                  /\ UNCHANGED <<idx, stats>>
             ELSE /\ stats' = [stats EXCEPT
                                 !.skipped = @ + 1,
                                 !.below_min = IF counts_below_min(item, config)
                                                 THEN @ + 1 ELSE @]
                  /\ idx' = idx + 1
                  /\ UNCHANGED <<pc, reqVars, updVars, sp_https>>
  /\ UNCHANGED <<storeVars, auto_confirm, market, price_str, my_items, eval_idx, items, interrupted_at>>

SetPriceReturn_as_retry_net_failure ==
  /\ pc = "set_price"
  /\ Returned
  /\ IF response.success
       THEN /\ pc' = "updated"
            /\ upd_result' = "true"
            /\ only_too_often' = FALSE
            /\ Idle
            /\ UNCHANGED <<upd_attempt, sp_calls>>
       ELSE IF response.error \in {"too_often", "net"} /\ upd_attempt < max_retries - 1
         THEN /\ upd_attempt' = upd_attempt + 1
              /\ Issue(SetPriceReq(items[idx].item_id, new_price))
              /\ sp_calls' = sp_calls + 1
              /\ only_too_often' = (only_too_often /\ response.error = "too_often")
              /\ UNCHANGED <<pc, upd_result>>
         ELSE /\ pc' = "updated"
              /\ upd_result' = "false"
              /\ only_too_often' = (only_too_often /\ response.error = "too_often")
              /\ Idle
              /\ UNCHANGED <<upd_attempt, sp_calls>>
  /\ UNCHANGED <<storeVars, auto_confirm, market, price_str, cycleVars, should_update, new_price, sp_https,
                 confirm, interrupted_at>>

SetPriceReturn_as_retry_any_error ==
  /\ pc = "set_price"
  /\ Returned
  /\ IF response.success
       THEN /\ pc' = "updated"
            /\ upd_result' = "true"
            /\ only_too_often' = FALSE
            /\ Idle
            /\ UNCHANGED <<upd_attempt, sp_calls>>
       ELSE IF upd_attempt < max_retries - 1
         THEN /\ upd_attempt' = upd_attempt + 1
              /\ Issue(SetPriceReq(items[idx].item_id, new_price))
              /\ sp_calls' = sp_calls + 1
              /\ only_too_often' = (only_too_often /\ response.error = "too_often")
              /\ UNCHANGED <<pc, upd_result>>
         ELSE /\ pc' = "updated"
              /\ upd_result' = "false"
              /\ only_too_often' = (only_too_often /\ response.error = "too_often")
              /\ Idle
              /\ UNCHANGED <<upd_attempt, sp_calls>>
  /\ UNCHANGED <<storeVars, auto_confirm, market, price_str, cycleVars, should_update, new_price, sp_https,
                 confirm, interrupted_at>>

SetPriceReturn_as_retry_on_last ==
  /\ pc = "set_price"
  /\ Returned
  /\ IF response.success
       THEN /\ pc' = "updated"
            /\ upd_result' = "true"
            /\ only_too_often' = FALSE
            /\ Idle
            /\ UNCHANGED <<upd_attempt, sp_calls>>
       ELSE IF response.error = "too_often" /\ upd_attempt < max_retries
         THEN /\ upd_attempt' = upd_attempt + 1
              /\ Issue(SetPriceReq(items[idx].item_id, new_price))
              /\ sp_calls' = sp_calls + 1
              /\ UNCHANGED <<pc, upd_result, only_too_often>>
         ELSE /\ pc' = "updated"
              /\ upd_result' = "false"
              /\ only_too_often' = (only_too_often /\ response.error = "too_often")
              /\ Idle
              /\ UNCHANGED <<upd_attempt, sp_calls>>
  /\ UNCHANGED <<storeVars, auto_confirm, market, price_str, cycleVars, should_update, new_price, sp_https,
                 confirm, interrupted_at>>

\* price_manager.py:203-225, set_price has returned to update_item_price
SetPriceReturn ==
  /\ pc = "set_price"
  /\ Returned
  /\ IF response.success
       THEN /\ pc' = "updated"
            /\ upd_result' = "true"
            /\ only_too_often' = FALSE
            /\ Idle
            /\ UNCHANGED <<upd_attempt, sp_calls>>
       ELSE IF response.error = "too_often" /\ upd_attempt < max_retries - 1
         THEN /\ upd_attempt' = upd_attempt + 1
              /\ Issue(SetPriceReq(items[idx].item_id, new_price))
              /\ sp_calls' = sp_calls + 1
              /\ UNCHANGED <<pc, upd_result, only_too_often>>
         ELSE /\ pc' = "updated"
              /\ upd_result' = "false"
              /\ only_too_often' = (only_too_often /\ response.error = "too_often")
              /\ Idle
              /\ UNCHANGED <<upd_attempt, sp_calls>>
  /\ UNCHANGED <<storeVars, auto_confirm, market, price_str, cycleVars, should_update, new_price, sp_https,
                 confirm, interrupted_at>>

\* what the operator may type at the prompt of price_manager.py:190; "da" is
\* written for the Cyrillic word of price_manager.py:191
Answers == {"yes", " Y ", "da", "no", "", "yes please"}

\* price_manager.py:190, .strip().lower() of the answers above
strip_lower(answer) ==
  CASE answer = " Y " -> "y"
    [] OTHER -> answer

Confirm_as_ignore_answer(answer) ==
  /\ pc = "confirm"
  /\ confirm' = strip_lower(answer)
  /\ pc' = "set_price"
  /\ Issue(SetPriceReq(items[idx].item_id, new_price))
  /\ sp_calls' = 1
  /\ only_too_often' = TRUE
  /\ UNCHANGED upd_result
  /\ UNCHANGED <<storeVars, auto_confirm, market, price_str, cycleVars, should_update, new_price,
                 upd_attempt, sp_https, interrupted_at>>

\* price_manager.py:189-203, the operator answers the confirmation prompt
Confirm(answer) ==
  /\ pc = "confirm"
  /\ confirm' = strip_lower(answer)
  /\ IF confirm' \in {"yes", "y", "da"}
       THEN /\ pc' = "set_price"
            /\ Issue(SetPriceReq(items[idx].item_id, new_price))
            /\ sp_calls' = 1
            /\ only_too_often' = TRUE
            /\ UNCHANGED upd_result
       ELSE /\ pc' = "updated"
            /\ upd_result' = "false"
            /\ UNCHANGED <<reqVars, sp_calls, only_too_often>>
  /\ UNCHANGED <<storeVars, auto_confirm, market, price_str, cycleVars, should_update, new_price,
                 upd_attempt, sp_https, interrupted_at>>

UpdateReturned_as_uncounted_failure ==
  /\ pc = "updated"
  /\ stats' = IF upd_result = "true"
                THEN [stats EXCEPT !.updated = @ + 1]
                ELSE stats
  /\ idx' = idx + 1
  /\ pc' = "process"
  /\ NoUpdate
  /\ UNCHANGED <<storeVars, auto_confirm, market, price_str, reqVars, my_items, eval_idx, items,
                 interrupted_at>>

UpdateReturned_as_refetch ==
  /\ pc = "updated"
  /\ stats' = IF upd_result = "true"
                THEN [stats EXCEPT !.updated = @ + 1]
                ELSE [stats EXCEPT !.skipped = @ + 1]
  /\ idx' = idx + 1
  /\ IF upd_result = "true" /\ idx < Len(items)
       THEN /\ pc' = "offers"
            /\ my_items' = <<[item_id |-> items[idx + 1].item_id,
                              market_hash_name |-> items[idx + 1].market_hash_name,
                              price |-> items[idx + 1].current_price,
                              status |-> 1]>>
            /\ eval_idx' = 1
            /\ items' = <<>>
            /\ Issue(SearchReq(items[idx + 1].market_hash_name))
       ELSE /\ pc' = "process"
            /\ UNCHANGED <<reqVars, my_items, eval_idx, items>>
  /\ NoUpdate
  /\ UNCHANGED <<storeVars, auto_confirm, market, price_str, interrupted_at>>

UpdateReturned_as_abort_on_failure ==
  /\ pc = "updated"
  /\ stats' = IF upd_result = "true"
                THEN [stats EXCEPT !.updated = @ + 1]
                ELSE [stats EXCEPT !.skipped = @ + 1]
  /\ idx' = IF upd_result = "true" THEN idx + 1 ELSE Len(items) + 1
  /\ pc' = "process"
  /\ NoUpdate
  /\ UNCHANGED <<storeVars, auto_confirm, market, price_str, reqVars, my_items, eval_idx, items, interrupted_at>>

\* price_manager.py:256-259, update_item_price has returned
UpdateReturned ==
  /\ pc = "updated"
  /\ stats' = IF upd_result = "true"
                THEN [stats EXCEPT !.updated = @ + 1]
                ELSE [stats EXCEPT !.skipped = @ + 1]
  /\ idx' = idx + 1
  /\ pc' = "process"
  /\ NoUpdate
  /\ UNCHANGED <<storeVars, auto_confirm, market, price_str, reqVars, my_items, eval_idx, items, interrupted_at>>

\* price_manager.py:266 and main.py:203-213: the statistics are returned and
\* printed, and the loop sleeps
ReturnStats ==
  /\ pc = "process"
  /\ idx > Len(items)
  /\ pc' = "sleep"
  /\ items' = <<>>
  /\ idx' = 0
  /\ UNCHANGED <<storeVars, auto_confirm, market, price_str, reqVars, my_items, eval_idx, stats, updVars,
                 sp_https, interrupted_at>>

\* --------------------------------------------------------- auto_update_mode
\* main.py:194-203, the sleep is over and the next iteration starts
SleepDone ==
  /\ pc = "sleep"
  /\ pc' = "fetch"
  /\ stats' = NoStats
  /\ Issue(ItemsReq)
  /\ UNCHANGED <<storeVars, auto_confirm, market, price_str, my_items, eval_idx, items, idx, updVars, sp_https,
                 interrupted_at>>

KeyboardInterrupt_as_cooperative ==
  /\ pc \in AutoPcs
  /\ interrupted_at = "none"
  /\ interrupted_at' = pc
  /\ UNCHANGED <<pc, storeVars, auto_confirm, market, price_str, reqVars, cycleVars, updVars, sp_https>>

\* main.py:192 and :215-216: Ctrl+C raises KeyboardInterrupt in the control
\* thread wherever it is inside the try block; no frame below catches it
\* (api_client.py:55 and :66 catch RequestException only), so every frame is
\* unwound and auto_update_mode returns to the main menu.
KeyboardInterrupt ==
  /\ pc \in AutoPcs
  /\ pc' = "menu"
  /\ interrupted_at' = pc
  /\ Idle
  /\ my_items' = <<>>
  /\ eval_idx' = 0
  /\ items' = <<>>
  /\ idx' = 0
  /\ stats' = NoStats
  /\ NoUpdate
  /\ UNCHANGED <<storeVars, auto_confirm, market, price_str>>

\* ------------------------------------------------------------ specification
\* main.py:261-275: the configuration is loaded and the balance is requested
Init ==
  /\ pc = "connect"
  /\ config = EmptyDict
  /\ disk = [readable |-> TRUE, min_prices |-> EmptyDict]
  /\ auto_confirm = TRUE
  /\ req = [NoReq EXCEPT !.endpoint = "get-money"]
  /\ req_attempt = 0
  /\ response = NoResponse
  /\ tries = 0
  /\ waits = 0
  /\ my_items = <<>>
  /\ eval_idx = 0
  /\ items = <<>>
  /\ idx = 0
  /\ stats = NoStats
  /\ should_update = "none"
  /\ new_price = 0
  /\ upd_attempt = 0
  /\ upd_result = "none"
  /\ sp_calls = 0
  /\ sp_https = 0
  /\ only_too_often = FALSE
  /\ interrupted_at = "none"
  /\ net_errors = 0
  /\ confirm = "none"
  /\ price_str = <<>>
  /\ market = NoMarket

Next ==
  \/ HttpReply
  \/ HttpTimeout
  \/ HttpError
  \/ Connected
  \/ \E name \in Names, price \in MenuPrices, outcome \in SaveOutcomes :
       set_min_price_menu(name, price, outcome)
  \/ \E name \in Names, outcome \in SaveOutcomes : remove_min_price_menu(name, outcome)
  \/ StartAuto
  \/ FetchReturn
  \/ OfferReturn
  \/ ProcessItem
  \/ SetPriceReturn
  \/ UpdateReturned
  \/ ReturnStats
  \/ SleepDone
  \/ KeyboardInterrupt

Spec == Init /\ [][Next]_vars

\* ------------------------------------------- decide, as a function of its inputs
\* prices of the half-cent grid, and the same one thousandth higher
GridPrices == {k * HalfCent : k \in 0..MaxGrid}
ListingGrid == GridPrices \cup {p + Milli : p \in GridPrices}
GridRaw == {5 * k : k \in 0..MaxGrid}

SearchBodies ==
  {JsonOk, JsonFail("app_error"), NetFail, HttpFail}
    \cup {[JsonOk EXCEPT !.data = <<raw>>] : raw \in GridRaw}

FloorConfigs ==
  {EmptyDict} \cup {DictSet(EmptyDict, n, f) : n \in Names, f \in GridPrices}

\* one listing, the answer to its best-offer query, and a floor mapping
InitDecide ==
  /\ pc = "input"
  /\ config \in FloorConfigs
  /\ disk = [readable |-> TRUE, min_prices |-> config]
  /\ auto_confirm = TRUE
  /\ req = NoReq
  /\ req_attempt = 0
  /\ response \in SearchBodies
  /\ tries = 0
  /\ waits = 0
  /\ my_items \in {<<RawItem(1, p, 1)>> : p \in ListingGrid}
  /\ eval_idx = 0
  /\ items = <<>>
  /\ idx = 0
  /\ stats = NoStats
  /\ should_update = "none"
  /\ new_price = 0
  /\ upd_attempt = 0
  /\ upd_result = "none"
  /\ sp_calls = 0
  /\ sp_https = 0
  /\ only_too_often = FALSE
  /\ interrupted_at = "none"
  /\ net_errors = 0
  /\ confirm = "none"
  /\ price_str = <<>>
  /\ market = NoMarket

\* price_manager.py:67-113 applied to the listing
EvaluateOne ==
  /\ pc = "input"
  /\ pc' = "evaluated"
  /\ eval_idx' = 1
  /\ items' = <<item_info(my_items[1], response)>>
  /\ UNCHANGED <<storeVars, auto_confirm, market, price_str, reqVars, my_items, idx, stats, updVars, sp_https,
                 interrupted_at>>

\* price_manager.py:13-19, an ItemInfo constructed by a caller with a position
\* of its choice
MakeItemInfo(position) ==
  /\ pc = "input"
  /\ pc' = "evaluated"
  /\ items' = <<[item_info(my_items[1], response) EXCEPT !.position = position]>>
  /\ UNCHANGED <<storeVars, auto_confirm, market, price_str, reqVars, my_items, eval_idx, idx, stats, updVars,
                 sp_https, interrupted_at>>

\* price_manager.py:253, should_update, new_price = self.should_update_price(item)
DecideOne ==
  /\ pc = "evaluated"
  /\ pc' = "decided"
  /\ LET decision == should_update_price(items[1], config)
     IN  /\ should_update' = IF decision[1] THEN "true" ELSE "false"
         /\ new_price' = IF decision[1] THEN decision[2][1] ELSE 0
  /\ UNCHANGED <<storeVars, auto_confirm, market, price_str, reqVars, cycleVars, upd_attempt, upd_result,
                 sp_calls, only_too_often, sp_https, confirm, interrupted_at>>

NextDecide ==
  \/ EvaluateOne
  \/ \E position \in 1..3 : MakeItemInfo(position)
  \/ DecideOne

SpecDecide == InitDecide /\ [][NextDecide]_vars

\* ------------------------------------- one listing through process_all_items
\* price_manager.py:237-245, process_all_items has the list of the one listing
\* evaluated above and starts its statistics
BeginProcess ==
  /\ pc = "evaluated"
  /\ eval_idx = 1
  /\ pc' = "process"
  /\ idx' = 1
  /\ stats' = [NoStats EXCEPT !.total = Len(items)]
  /\ UNCHANGED <<storeVars, auto_confirm, market, price_str, reqVars, my_items, eval_idx, items,
                 updVars, sp_https, interrupted_at>>

NextListing ==
  \/ EvaluateOne
  \/ BeginProcess
  \/ ProcessItem

SpecListing == InitDecide /\ [][NextListing]_vars

\* ------------------------------- process_all_items called with either argument
ManualConfigs == {EmptyDict, DictSet(EmptyDict, "A", MaxFloor * Cent)}

\* price_manager.py:227-237, process_all_items(auto_confirm) has been called
\* and requests the listings
InitManual ==
  /\ pc = "fetch"
  /\ config \in ManualConfigs
  /\ disk = [readable |-> TRUE, min_prices |-> config]
  /\ auto_confirm \in BOOLEAN
  /\ req = ItemsReq
  /\ req_attempt = 0
  /\ response = NoResponse
  /\ tries = 0
  /\ waits = 0
  /\ my_items = <<>>
  /\ eval_idx = 0
  /\ items = <<>>
  /\ idx = 0
  /\ stats = NoStats
  /\ should_update = "none"
  /\ new_price = 0
  /\ upd_attempt = 0
  /\ upd_result = "none"
  /\ sp_calls = 0
  /\ sp_https = 0
  /\ only_too_often = FALSE
  /\ interrupted_at = "none"
  /\ net_errors = 0
  /\ confirm = "none"
  /\ price_str = <<>>
  /\ market = NoMarket

\* one call of process_all_items; it is over when the statistics are returned
NextManual ==
  \/ HttpReply
  \/ HttpTimeout
  \/ HttpError
  \/ FetchReturn
  \/ OfferReturn
  \/ ProcessItem
  \/ \E answer \in Answers : Confirm(answer)
  \/ SetPriceReturn
  \/ UpdateReturned
  \/ ReturnStats

SpecManual == InitManual /\ [][NextManual]_vars

\* ------------------------------------ the listings request, over every status
\* a listing as the service sends it without a "status" field
RawItemNoStatus(i, p) == [item_id |-> i, market_hash_name |-> NameOf(i), price |-> p]

FilterStatuses == {0, 1, SoldStatus, 3}

FilterListings(i) ==
  {RawItem(i, p, s) : p \in ListingPrices, s \in FilterStatuses}
    \cup {RawItemNoStatus(i, p) : p \in ListingPrices}

\* replies of "items" with up to MaxItems listings
FilterItems ==
  UNION { {its \in [1..n -> UNION {FilterListings(i) : i \in 1..n}] :
             \A i \in 1..n : its[i] \in FilterListings(i)} : n \in 0..MaxItems }

FilterBodies ==
  {[JsonOk EXCEPT !.items = its] : its \in FilterItems} \cup {JsonFail("app_error")}

\* api_client.py:89, _make_request("items") has returned to get_items_on_sale
InitFilter ==
  /\ pc = "fetch"
  /\ config = EmptyDict
  /\ disk = [readable |-> TRUE, min_prices |-> EmptyDict]
  /\ auto_confirm = TRUE
  /\ req = ItemsReq
  /\ req_attempt = 0
  /\ response \in FilterBodies
  /\ tries = 1
  /\ waits = 0
  /\ my_items = <<>>
  /\ eval_idx = 0
  /\ items = <<>>
  /\ idx = 0
  /\ stats = NoStats
  /\ should_update = "none"
  /\ new_price = 0
  /\ upd_attempt = 0
  /\ upd_result = "none"
  /\ sp_calls = 0
  /\ sp_https = 0
  /\ only_too_often = FALSE
  /\ interrupted_at = "none"
  /\ net_errors = 0
  /\ confirm = "none"
  /\ price_str = <<>>
  /\ market = NoMarket

\* get_my_items_info from the filter to the last best-offer query
NextFilter ==
  \/ FetchReturn
  \/ HttpReply
  \/ OfferReturn

SpecFilter == InitFilter /\ [][NextFilter]_vars

\* ------------------------------------ two listings against the same best offer
\* two listings of the same name, and the answer both best-offer queries get
InitPosition ==
  /\ pc = "input"
  /\ config = EmptyDict
  /\ disk = [readable |-> TRUE, min_prices |-> EmptyDict]
  /\ auto_confirm = TRUE
  /\ req = NoReq
  /\ req_attempt = 0
  /\ response \in SearchBodies
  /\ tries = 0
  /\ waits = 0
  /\ my_items \in {<<RawItem(1, p1, 1), RawItem(3, p2, 1)>> : p1, p2 \in ListingGrid}
  /\ eval_idx = 0
  /\ items = <<>>
  /\ idx = 0
  /\ stats = NoStats
  /\ should_update = "none"
  /\ new_price = 0
  /\ upd_attempt = 0
  /\ upd_result = "none"
  /\ sp_calls = 0
  /\ sp_https = 0
  /\ only_too_often = FALSE
  /\ interrupted_at = "none"
  /\ net_errors = 0
  /\ confirm = "none"
  /\ price_str = <<>>
  /\ market = NoMarket

\* price_manager.py:67-113 applied to both listings
EvaluateBoth ==
  /\ pc = "input"
  /\ pc' = "evaluated"
  /\ eval_idx' = 2
  /\ items' = <<item_info(my_items[1], response), item_info(my_items[2], response)>>
  /\ UNCHANGED <<storeVars, auto_confirm, market, price_str, reqVars, my_items, idx, stats, updVars,
                 sp_https, interrupted_at>>

NextPosition == EvaluateBoth

SpecPosition == InitPosition /\ [][NextPosition]_vars

\* ----------------------------------------------- a price sent and read back
\* every price up to MaxMills thousandths, in quarters of a thousandth: the
\* multiples of Milli are the prices of at most 3 decimals, their neighbours
\* are what float arithmetic leaves of them, the rest are finer prices
EncodePrices == 0..(MaxMills * Milli)

InitEncode ==
  /\ pc = "input"
  /\ config = EmptyDict
  /\ disk = [readable |-> TRUE, min_prices |-> EmptyDict]
  /\ auto_confirm = TRUE
  /\ req = NoReq
  /\ req_attempt = 0
  /\ response = NoResponse
  /\ tries = 0
  /\ waits = 0
  /\ my_items \in {<<RawItem(1, p, 1)>> : p \in ListingPrices}
  /\ eval_idx = 0
  /\ items = <<>>
  /\ idx = 0
  /\ stats = NoStats
  /\ should_update = "none"
  /\ new_price \in EncodePrices
  /\ upd_attempt = 0
  /\ upd_result = "none"
  /\ sp_calls = 0
  /\ sp_https = 0
  /\ only_too_often = FALSE
  /\ interrupted_at = "none"
  /\ net_errors = 0
  /\ confirm = "none"
  /\ price_str = <<>>
  /\ market = NoMarket

\* api_client.py:141-168, set_price builds the request for the price
EncodeOne ==
  /\ pc = "input"
  /\ pc' = "encoded"
  /\ Issue(SetPriceReq(my_items[1].item_id, new_price))
  /\ UNCHANGED <<storeVars, auto_confirm, market, price_str, cycleVars, updVars, sp_https,
                 interrupted_at>>

\* the service answers a later best-offer query with the integer it was sent
\* (api_client.py:127-139)
ListOffer ==
  /\ pc = "encoded"
  /\ pc' = "offered"
  /\ response' = [JsonOk EXCEPT !.data = <<req.price>>]
  /\ UNCHANGED <<storeVars, auto_confirm, market, price_str, req, req_attempt, tries, waits,
                 net_errors, cycleVars, updVars, sp_https, interrupted_at>>

\* price_manager.py:82-85, the offer is decoded into the ItemInfo
DecodeOne ==
  /\ pc = "offered"
  /\ pc' = "decoded"
  /\ eval_idx' = 1
  /\ items' = <<item_info(my_items[1], response)>>
  /\ UNCHANGED <<storeVars, auto_confirm, market, price_str, reqVars, my_items, idx, stats, updVars,
                 sp_https, interrupted_at>>

NextEncode ==
  \/ EncodeOne
  \/ ListOffer
  \/ DecodeOne

SpecEncode == InitEncode /\ [][NextEncode]_vars

\* ------------------------------------------- the loop against a market that
\* ------------------------------------------- remembers the operator's prices
\* the operator holds listings 1..MaxItems, each at a whole number of cents;
\* for every name another seller's lowest offer, which never changes
Markets ==
  { [own |-> o, other |-> t] :
      o \in [1..MaxItems -> OfferRaw], t \in [Names -> OfferRaw] }

\* the first offer of the search answer: the lowest price for the name, the
\* operator's own listings included (api_client.py:127-139)
LowestOffer(name) ==
  LET offers == {market.own[i] : i \in {j \in 1..MaxItems : NameOf(j) = name}}
                  \cup {market.other[name]}
  IN  CHOOSE p \in offers : \A q \in offers : p <= q

\* api_client.py:46-53, the service answers from the market it holds.  A
\* set-price request is applied or refused; a price that is not positive is
\* always refused.
MarketReply ==
  /\ InFlight
  /\ CountHttp
  /\ CASE req.endpoint = "items" ->
            /\ response' = [JsonOk EXCEPT
                              !.items = [i \in 1..MaxItems |->
                                           RawItem(i, market.own[i] * Milli, 1)]]
            /\ UNCHANGED market
       [] req.endpoint = "search-item-by-hash-name" ->
            /\ response' = [JsonOk EXCEPT !.data = <<LowestOffer(req.hash_name)>>]
            /\ UNCHANGED market
       [] OTHER ->
            \/ /\ req.price >= 1
               /\ response' = JsonOk
               /\ market' = [market EXCEPT !.own[req.item_id] = req.price]
            \/ /\ \E e \in {"too_often", "app_error"} : response' = JsonFail(e)
               /\ UNCHANGED market
  /\ UNCHANGED <<pc, storeVars, auto_confirm, price_str, req, req_attempt, waits, net_errors,
                 cycleVars, updVars, interrupted_at>>

\* at the start every listing of the operator is at the highest price
InitMarkets == {m \in Markets : \A i \in 1..MaxItems : m.own[i] = 10 * MaxPrice}

\* main.py:194-203, the first iteration requests the listings; no floor is set
InitMarket ==
  /\ pc = "fetch"
  /\ config = EmptyDict
  /\ disk = [readable |-> TRUE, min_prices |-> EmptyDict]
  /\ auto_confirm = TRUE
  /\ req = ItemsReq
  /\ req_attempt = 0
  /\ response = NoResponse
  /\ tries = 0
  /\ waits = 0
  /\ my_items = <<>>
  /\ eval_idx = 0
  /\ items = <<>>
  /\ idx = 0
  /\ stats = NoStats
  /\ should_update = "none"
  /\ new_price = 0
  /\ upd_attempt = 0
  /\ upd_result = "none"
  /\ sp_calls = 0
  /\ sp_https = 0
  /\ only_too_often = FALSE
  /\ interrupted_at = "none"
  /\ net_errors = 0
  /\ confirm = "none"
  /\ price_str = <<>>
  /\ market \in InitMarkets

NextMarket ==
  \/ MarketReply
  \/ FetchReturn
  \/ OfferReturn
  \/ ProcessItem
  \/ SetPriceReturn
  \/ UpdateReturned
  \/ ReturnStats
  \/ SleepDone

SpecMarket == InitMarket /\ [][NextMarket]_vars

\* ------------------------------------------------------------------ claims
\* C1: a price submission whose every response is the rate-limited error
\* "too_often" makes exactly 3 set_price calls and then returns False; no
\* update makes more than 3 calls, and once update_item_price has returned the
\* loop moves on to the next listing and never back in the cycle.
C1_RetryBound ==
  [][ /\ (pc' = "updated" /\ only_too_often') => (sp_calls' = 3 /\ upd_result' = "false")
      /\ sp_calls' <= 3
      /\ (pc = "updated" /\ pc' # "menu") => (pc' = "process" /\ idx' = idx + 1)
      /\ (pc \in {"process", "set_price", "updated"} /\ pc' \in {"process", "set_price", "updated"})
           => idx' >= idx ]_vars

C1_Witness ==
  pc = "updated" /\ only_too_often /\ sp_calls = 3 /\ upd_result = "false"

C3_SkippedAllNonUpdates ==
  pc = "sleep" => stats.skipped = stats.total - stats.updated

\* C3 amended: after process_all_items has returned, skipped counts the
\* listings that were neither in first position nor updated,
\* skipped = total - first_position - updated.
C3_SkippedExcludesFirst ==
  pc = "sleep" => stats.skipped = stats.total - stats.first_position - stats.updated

C3_Witness ==
  /\ pc = "sleep"
  /\ stats = [total |-> 3, updated |-> 1, skipped |-> 1, first_position |-> 1,
              below_min |-> 1]

\* C4: whenever no store call is in progress, the persisted floor mapping is
\* readable and equals the in-memory floor mapping.
C4_WriteThrough ==
  disk = [readable |-> TRUE, min_prices |-> config]

\* C5: if bestMarketPrice - 0.01 is below the floor configured for the
\* listing's hash name, the decision is not Update, whatever the current price
\* and the position.
C5_FloorEnforcement ==
  (pc = "decided"
     /\ items[1].market_hash_name \in DOMAIN config
     /\ items[1].best_price - Cent < config[items[1].market_hash_name])
    => should_update = "false"

C5_Witness ==
  /\ pc = "decided"
  /\ items[1].market_hash_name \in DOMAIN config
  /\ items[1].best_price - Cent < config[items[1].market_hash_name]
  /\ items[1].position > 1
  /\ items[1].current_price >= items[1].best_price + 2 * Cent
  /\ should_update = "false"

\* C6: a decision Update(newPrice) has newPrice strictly below the listing's
\* current price.
C6_NoRegression ==
  (pc = "decided" /\ should_update = "true") => new_price < items[1].current_price

C6_Witness ==
  pc = "decided" /\ should_update = "true" /\ new_price < items[1].current_price

\* C7: a request whose attempts all end in a timeout or connection error makes
\* exactly 3 attempts with a wait after each but the last, and returns a
\* failure value; a request answered on attempt k <= 3 returns that answer
\* after k attempts and k - 1 waits; nothing is attempted after the return.
C7_NetworkRetry ==
  [][ /\ response'.kind = "neterr"
           => (tries' = 3 /\ waits' = 2 /\ ~response'.success /\ response'.error # "")
      /\ (Returned' /\ response'.kind # "neterr") => (tries' <= 3 /\ waits' = tries' - 1)
      /\ InFlight' => (tries' <= 2 /\ waits' = tries')
      /\ Returned => (tries' = tries \/ tries' = 0) ]_vars

C7_Witness ==
  /\ Returned
  /\ response.kind = "neterr"
  /\ req.endpoint = "search-item-by-hash-name"
  /\ tries = 3

\* C8: a failed update of one listing is followed by the processing of the
\* next listing of the cycle, every listing of the cycle is processed, and a
\* cycle, failed or not, is followed by the sleep and the next cycle; only
\* the cancellation leaves the loop.
C8_FailuresDoNotStop ==
  [][ pc' # "menu" =>
        /\ (pc = "updated" /\ upd_result = "false")
             => (pc' = "process" /\ idx' = idx + 1 /\ items' = items)
        /\ (pc = "process" /\ idx <= Len(items))
             => (pc' \in {"process", "set_price"} /\ items' = items)
        /\ (pc = "process" /\ idx > Len(items)) => pc' = "sleep"
        /\ (pc = "fetch" /\ Returned) => pc' \in {"process", "offers"}
        /\ (pc = "offers" /\ Returned) => pc' \in {"process", "offers"}
        /\ pc = "sleep" => pc' = "fetch" ]_vars

C8_Witness ==
  /\ pc = "set_price"
  /\ idx >= 2
  /\ stats.skipped > stats.below_min

\* C9: a set-price request is only ever in progress for the listing being
\* processed, that listing is not in first position, the price sent is
\* bestMarketPrice - 0.01 in thousandths, below the current price and not
\* below the floor configured for the listing's hash name.
C9_SubmitOnlyDecided ==
  req.endpoint = "set-price" =>
    /\ pc = "set_price"
    /\ idx \in 1..Len(items)
    /\ items[idx].position # 1
    /\ req.item_id = items[idx].item_id
    /\ req.price * Milli = items[idx].best_price - Cent
    /\ req.price * Milli < items[idx].current_price
    /\ items[idx].market_hash_name \in DOMAIN config
         => req.price * Milli >= config[items[idx].market_hash_name]

C9_Witness ==
  /\ req.endpoint = "set-price"
  /\ items[idx].market_hash_name \in DOMAIN config
  /\ stats.below_min >= 1

C11_UpdateCompleteness ==
  (/\ pc = "decided"
   /\ items[1].position > 1
   /\ \/ items[1].market_hash_name \notin DOMAIN config
      \/ items[1].best_price - Cent >= config[items[1].market_hash_name]
   /\ items[1].best_price - Cent < items[1].current_price)
    => (/\ should_update = "true"
        /\ price_formatted(new_price) * Milli = items[1].best_price - Cent)

\* C12: when the best-offer query of a listing succeeds with no offers, the
\* listing's best market price is its own current price and its position is 1;
\* process_all_items then counts it as already first and goes on to the next
\* listing without deciding an update or issuing a request.
C12_EmptyOffersAlreadyFirst ==
  [][ (response.success /\ response.data = <<>>) =>
        /\ pc' = "evaluated" =>
             /\ items'[1].current_price = my_items[1].price
             /\ items'[1].best_price = my_items[1].price
             /\ items'[1].position = 1
        /\ pc = "process" =>
             /\ pc' = "process"
             /\ idx' = idx + 1
             /\ stats' = [stats EXCEPT !.first_position = @ + 1]
             /\ should_update' = "none"
             /\ req' = NoReq ]_vars

C12_Witness ==
  /\ pc = "process"
  /\ idx = 2
  /\ response = JsonOk
  /\ items[1].best_price = my_items[1].price
  /\ stats.first_position = 1
  /\ req = NoReq

\* C13: _make_request retries network errors only.  Every attempt that does not
\* end the call raised Timeout or ConnectionError, so a request whose attempt
\* gets an HTTP error status or a JSON body (a non-success body such as
\* "too_often" included) returns with that attempt, the first one if no network
\* error came before.  The callers that fetch the balance, the listings and the
\* best offers never issue the failed request again; only update_item_price
\* repeats a request after "too_often".
C13_NoRetryOfNonNetworkFailure ==
  [][ /\ InFlight' => tries' = net_errors'
      /\ (Returned' /\ response'.kind \in {"json", "httperr"}) => tries' = net_errors' + 1
      /\ (Returned /\ ~response.success /\ pc \in {"connect", "fetch", "offers"})
           => (pc' # pc \/ eval_idx' # eval_idx)
      /\ (Returned /\ response.error = "too_often" /\ InFlight' /\ req' = req
            /\ eval_idx' = eval_idx)
           => pc = "set_price" ]_vars

C13_Witness ==
  /\ pc = "offers"
  /\ response = JsonFail("too_often")
  /\ tries = 1
  /\ waits = 0

\* C14: in update_item_price a set_price response that is a failure other than
\* "too_often" ends the submission at once, on the first, second or third
\* attempt alike: no further set_price call is made and the result is False.
C14_OtherFailureEndsSubmission ==
  [][ (/\ pc = "set_price"
       /\ Returned
       /\ ~response.success
       /\ response.error # "too_often"
       /\ pc' # "menu")
        => (/\ pc' = "updated"
            /\ upd_result' = "false"
            /\ sp_calls' = sp_calls
            /\ sp_https' = sp_https
            /\ req' = NoReq) ]_vars

\* the failure came with the second set_price call, after one "too_often"
C14_Witness ==
  /\ pc = "updated"
  /\ upd_result = "false"
  /\ ~only_too_often
  /\ sp_calls = 2

\* C15: without auto_confirm, set_price is called only after the operator has
\* answered the prompt with yes; if the answer is anything else,
\* update_item_price returns False without a single set_price request.  With
\* auto_confirm the prompt is never shown.
C15_ConfirmBeforeSubmit ==
  /\ (~auto_confirm /\ (req.endpoint = "set-price" \/ sp_calls > 0 \/ sp_https > 0))
       => confirm \in {"yes", "y", "da"}
  /\ (~auto_confirm /\ pc \in {"set_price", "updated"}) => confirm # "none"
  /\ (~auto_confirm /\ pc = "updated" /\ confirm \notin {"yes", "y", "da"})
       => (upd_result = "false" /\ sp_calls = 0 /\ sp_https = 0 /\ req = NoReq)
  /\ auto_confirm => (pc # "confirm" /\ confirm = "none")

C15_Witness ==
  /\ ~auto_confirm
  /\ pc = "updated"
  /\ confirm = "no"
  /\ upd_result = "false"
  /\ sp_calls = 0

\* C16: get_items_on_sale returns exactly the listings of the reply whose
\* status is not 2, in their original order: a listing with status 2 is
\* dropped, a listing with any other status or without a status field is kept.
\* Only the kept listings are then queried for their best offer and turned
\* into ItemInfo, one per kept listing and in the same order.
C16_ActiveListingsOnly ==
  [][ /\ (pc = "fetch" /\ Returned) =>
           LET all == IF response.success THEN response.items ELSE <<>>
               kept == {i \in 1..Len(all) :
                          ~("status" \in DOMAIN all[i] /\ all[i].status = 2)}
               nth(j) == CHOOSE i \in kept : Cardinality({k \in kept : k < i}) = j - 1
           IN  /\ Len(my_items') = Cardinality(kept)
               /\ \A j \in 1..Len(my_items') : my_items'[j] = all[nth(j)]
      /\ (pc = "offers" /\ InFlight) =>
           /\ ~("status" \in DOMAIN my_items[eval_idx] /\ my_items[eval_idx].status = 2)
           /\ req.hash_name = my_items[eval_idx].market_hash_name
      /\ (pc = "offers" /\ Returned) =>
           /\ Len(items') = eval_idx
           /\ items'[eval_idx].item_id = my_items[eval_idx].item_id ]_vars

\* listing 1 has no status field, listing 2 was dropped, listing 3 has status 3
C16_Witness ==
  /\ pc = "offers"
  /\ Len(my_items) = 2
  /\ my_items[1].item_id = 1
  /\ "status" \notin DOMAIN my_items[1]
  /\ my_items[2].item_id = 3
  /\ my_items[2].status = 3

\* C17: while process_all_items runs, and when it is about to return,
\* below_min is the number of the listings processed so far that were decided
\* BelowFloor: not in first position, with a floor, and with best - 0.01 (as the
\* program computes it) below that floor.  A listing already first, a failed
\* or cancelled update, or any other skip does not count.  Floors are positive,
\* as set_min_price_menu stores them.
C17_BelowMinCountsBelowFloor ==
  (pc \in {"process", "confirm", "set_price", "updated"}) =>
    stats.below_min =
      Cardinality({j \in 1..(idx - 1) :
                     /\ items[j].position # 1
                     /\ items[j].market_hash_name \in DOMAIN config
                     /\ SubCent(items[j].best_price) < config[items[j].market_hash_name]})

\* three listings: one below its floor, one whose update failed, one first
C17_Witness ==
  /\ pc = "process"
  /\ idx = 4
  /\ Len(items) = 3
  /\ stats = [total |-> 3, updated |-> 0, skipped |-> 2, first_position |-> 1,
              below_min |-> 1]

C19_ReadsBeforeWrites ==
  [][ /\ pc' \in {"fetch", "offers"} => pc \in {"menu", "sleep", "fetch", "offers"}
      /\ (pc' \in {"process", "confirm", "set_price", "updated"}
            /\ pc \notin {"process", "confirm", "set_price", "updated"})
           => /\ pc \in {"fetch", "offers"}
              /\ Returned
              /\ pc = "offers" => (eval_idx = Len(my_items) /\ Len(items') = Len(my_items))
      /\ (pc = "offers" /\ pc' = "offers" /\ eval_idx' # eval_idx)
           => /\ Returned
              /\ eval_idx' = eval_idx + 1
              /\ req'.hash_name = my_items[eval_idx'].market_hash_name
      /\ (req' # NoReq /\ tries' = 0 /\ (tries # 0 \/ req' # req)) => ~InFlight
      /\ (pc \in {"process", "confirm", "set_price", "updated"}
            /\ pc' \in {"process", "confirm", "set_price", "updated"})
           => idx' \in {idx, idx + 1}
      /\ req'.endpoint = "set-price" => req'.item_id = items'[idx'].item_id ]_vars

\* the first set_price of a cycle is in flight; all three listings have been
\* evaluated
C19_Witness ==
  /\ pc = "set_price"
  /\ InFlight
  /\ idx = 1
  /\ sp_calls = 1
  /\ Len(items) = 3
  /\ stats.total = 3
  /\ stats.updated = 0

\* C20: the position is monotone in the current price.  Of two listings
\* measured against the same best market price, the one with the lower or
\* equal current price has the lower or equal position.
C20_PositionMonotone ==
  (/\ pc = "evaluated"
   /\ Len(items) = 2
   /\ items[1].best_price = items[2].best_price
   /\ items[1].current_price <= items[2].current_price)
    => items[1].position <= items[2].position

\* positions 1, 2 and 3 against one best offer
C20_Witness ==
  /\ pc = "evaluated"
  /\ Len(items) = 2
  /\ items[1].best_price = items[2].best_price
  /\ items[1].current_price < items[2].current_price
  /\ items[1].position = 2
  /\ items[2].position = 3

\* C21: prices travel in thousandths.  set_price sends the integer nearest to
\* price * 1000, which for a price of at most 3 decimals is exactly its number
\* of thousandths; an offer integer n is read as n / 1000; so a price of at
\* most 3 decimals that is sent and read back is the same price.
C21_EncodingRoundTrip ==
  /\ pc \in {"encoded", "offered", "decoded"} =>
       /\ 2 * (req.price * Milli - new_price) <= Milli
       /\ 2 * (new_price - req.price * Milli) <= Milli
       /\ new_price % Milli = 0 => req.price * Milli = new_price
  /\ pc = "decoded" =>
       /\ items[1].best_price = response.data[1] * Milli
       /\ new_price % Milli = 0 => items[1].best_price = new_price

\* 0.007 was sent as 7 and read back as 0.007
C21_Witness ==
  /\ pc = "decoded"
  /\ new_price = 7 * Milli
  /\ req.price = 7
  /\ response.data = <<7>>
  /\ items[1].best_price = 7 * Milli

\* C22: the "too_often" loop of update_item_price wraps the network retry loop
\* of _make_request.  One update makes at most 3 set_price calls of at most 3
\* HTTP requests each, 9 in all, and 9 happens.  A set_price call that has
\* used up its network retries returns a failure that is not "too_often":
\* the update ends there with False and no further call.
C22_NestedRetryBound ==
  [][ /\ sp_https' <= 9
      /\ sp_https' <= 3 * sp_calls'
      /\ sp_calls' <= 3
      /\ (pc = "set_price" /\ Returned /\ response.kind = "neterr" /\ pc' # "menu")
           => /\ tries = 3
              /\ response.error # "too_often"
              /\ pc' = "updated"
              /\ upd_result' = "false"
              /\ sp_calls' = sp_calls
              /\ sp_https' = sp_https
              /\ req' = NoReq ]_vars

\* three calls, each answered "too_often" at its third HTTP request
C22_Witness ==
  /\ pc = "updated"
  /\ sp_https = 9
  /\ sp_calls = 3
  /\ only_too_often
  /\ upd_result = "false"

\* C23: the statistics are conserved.  total is the number of listings
\* evaluated, 0 when the listings cannot be fetched; every listing processed
\* adds one to exactly one of first_position, updated and skipped, so that
\* when process_all_items returns total = first_position + updated + skipped;
\* below_min never exceeds skipped and no counter is negative.
C23_StatsConservation ==
  [][ /\ (pc = "fetch" /\ Returned /\ ~response.success /\ pc' # "menu")
           => (pc' = "process" /\ items' = <<>> /\ stats'.total = 0)
      /\ (pc = "offers" /\ pc' = "process") => stats'.total = Len(my_items)
      /\ pc' \in {"process", "confirm", "set_price", "updated"} =>
           /\ stats'.total = Len(items')
           /\ stats'.first_position + stats'.updated + stats'.skipped = idx' - 1
      /\ (pc \in {"process", "updated"} /\ pc' = "process" /\ idx' = idx + 1) =>
           \E k \in {"first_position", "updated", "skipped"} :
             /\ stats'[k] = stats[k] + 1
             /\ \A o \in {"first_position", "updated", "skipped"} \ {k} :
                  stats'[o] = stats[o]
      /\ pc' = "sleep" =>
           stats'.total = stats'.first_position + stats'.updated + stats'.skipped
      /\ stats'.below_min <= stats'.skipped
      /\ \A k \in DOMAIN stats' : stats'[k] >= 0 ]_vars

\* three listings: one first, one updated, one below its floor
C23_Witness ==
  /\ pc = "sleep"
  /\ stats = [total |-> 3, updated |-> 1, skipped |-> 1, first_position |-> 1,
              below_min |-> 1]

\* C24 as stated: when the best-offer query gives the lowest price of all
\* offers for a name, the operator's own included, the other sellers' offers
\* never change and no floor is set, no listing is ever submitted a price
\* below the other sellers' lowest offer for its name less 0.01, whatever the
\* outcomes of the submissions and however many cycles have run.
C24_NoSelfUndercutting ==
  (req.endpoint = "set-price" /\ market # NoMarket)
    => req.price >= market.other[NameOf(req.item_id)] - 10

\* C25: a best-offer query that fails (an error body, an HTTP error, or the
\* network retries used up) is handled like one without offers: the listing is
\* still emitted, with its own price as best price and position 1;
\* process_all_items counts it under first_position, not under skipped, and
\* issues no set_price request for it.
C25_FailedQueryAlreadyFirst ==
  [][ (response.kind \in {"json", "neterr", "httperr"} /\ ~response.success) =>
        /\ pc' = "evaluated" =>
             /\ Len(items') = 1
             /\ items'[1].item_id = my_items[1].item_id
             /\ items'[1].best_price = items'[1].current_price
             /\ items'[1].current_price = my_items[1].price
             /\ items'[1].position = 1
        /\ pc = "process" =>
             /\ stats'.first_position = stats.first_position + 1
             /\ stats'.skipped = stats.skipped
             /\ stats'.updated = stats.updated
             /\ pc' = "process"
             /\ idx' = idx + 1
             /\ req' = NoReq
             /\ sp_calls' = 0 ]_vars

\* the query had used up its network retries
C25_Witness ==
  /\ pc = "process"
  /\ idx = 2
  /\ response = NetFail
  /\ items[1].position = 1
  /\ stats.first_position = 1
  /\ stats.skipped = 0
  /\ req = NoReq

\* C26: for a listing built by get_my_items_info the outcome "no improvement"
\* does not occur.  Such a listing has a position above 1 only if its current
\* price is above the best price, so best - 0.01 is below its current price
\* and the listing is decided Update unless its floor forbids it.  A decided
\* listing that is neither first, nor below its floor, nor updated was made
\* with a position its prices do not give: its current price is not above the
\* best price.
C26_NoImprovementUnreachable ==
  pc = "decided" =>
    LET item == items[1]
        below_floor == /\ item.market_hash_name \in DOMAIN config
                       /\ SubCent(item.best_price) < config[item.market_hash_name]
        no_improvement == item.position # 1 /\ ~below_floor /\ should_update = "false"
    IN  /\ (eval_idx = 1 /\ item.position > 1) =>
             /\ item.current_price > item.best_price
             /\ SubCent(item.best_price) < item.current_price
             /\ should_update = "true" \/ below_floor
        /\ eval_idx = 1 => ~no_improvement
        /\ no_improvement =>
             /\ eval_idx = 0
             /\ item.current_price <= item.best_price
             /\ SubCent(item.best_price) >= item.current_price

\* an evaluated listing behind the best offer, kept by its floor
C26_Witness ==
  /\ pc = "decided"
  /\ eval_idx = 1
  /\ items[1].position > 1
  /\ should_update = "false"
  /\ items[1].market_hash_name \in DOMAIN config
  /\ SubCent(items[1].best_price) < config[items[1].market_hash_name]

====
